---- MODULE Spec2Model ----
(***************************************************************************)
(* A model of src/tcs_rag.py: the three retrieval-and-answer pipelines     *)
(* basic_rag, query_expansion_rag and multiple_queries_rag.                *)
(*                                                                         *)
(* A Python string is a sequence of tokens: the whitespace characters are  *)
(* tokens of their own (" ", "\n", "\t"), every other token is an opaque   *)
(* run of non-whitespace text.  strip, split and join act on the tokens    *)
(* as the Python methods act on the characters.  Python's 0-based indices  *)
(* are 1-based here.                                                       *)
(*                                                                         *)
(* The collaborators (the vector index, the language-model client and the  *)
(* cross encoder) are arguments of the functions.  Each is modelled by the *)
(* set of outcomes a call to it may have; every call picks one of them.    *)
(***************************************************************************)
EXTENDS Integers, Sequences, FiniteSets, TLC

VARIABLES
    fn,                  \* the function being run
    question,            \* argument question
    chroma_collection,   \* argument: the outcomes chroma_collection.query may have
    client,              \* argument: the outcomes client.responses.create may have
    cross_encoder,       \* argument: the behaviour cross_encoder.predict may have
    pc,                  \* position in the function body
    now,                 \* time.time(), in ticks of 1/100 s
    start_time,          \* local start_time
    hypothetical_answer, \* local of query_expansion_rag
    expanded_query,      \* local of query_expansion_rag
    generated_queries,   \* local of multiple_queries_rag
    all_queries,         \* local of multiple_queries_rag
    qi,                  \* position of the for loop over all_queries
    all_chunks,          \* local of multiple_queries_rag
    unique_chunks,       \* local of multiple_queries_rag
    scores,              \* local of multiple_queries_rag
    top_indices,         \* local of multiple_queries_rag
    top_chunks,          \* local of multiple_queries_rag
    results,             \* local results: what the last query call returned
    context,             \* local context
    ret,                 \* the returned dict, once pc = "returned"
    exc,                 \* the exception that left the function, once pc = "raised"
    aux_out,             \* outcome of the auxiliary generation call
    synth_out,           \* outcome of the final generation call
    query_out,           \* outcome of the last query call
    query_args,          \* arguments of the last query call
    create_input,        \* input= of the last client.responses.create call
    predict_pairs,       \* argument of the last cross_encoder.predict call
    query_calls,         \* number of chroma_collection.query calls issued
    aux_calls,           \* number of auxiliary generation calls issued
    synth_calls,         \* number of final generation calls issued
    predict_calls        \* number of cross_encoder.predict calls issued

vars == <<fn, question, chroma_collection, client, cross_encoder, pc, now,
          start_time, hypothetical_answer, expanded_query, generated_queries,
          all_queries, qi, all_chunks, unique_chunks, scores, top_indices,
          top_chunks, results, context, ret, exc, aux_out, synth_out,
          query_out, query_args, create_input, predict_pairs, query_calls,
          aux_calls, synth_calls, predict_calls>>

locals == <<hypothetical_answer, expanded_query, generated_queries,
            all_queries, qi, all_chunks, unique_chunks, scores, top_indices,
            top_chunks, results, context>>

(***************************************************************************)
(* Bounds of the model.                                                    *)
(***************************************************************************)
MaxLines == 7      \* most lines of a related-questions generation output
MaxPool == 6       \* most distinct chunks one retrieval returns
MaxDupLen == 3     \* longest retrieval result that repeats chunks
NumDupChunks == 3  \* chunks drawn for the results that repeat chunks
MaxScore == 1      \* relevance scores are 0 .. MaxScore

(***************************************************************************)
(* Program constants.                                                      *)
(***************************************************************************)
N_RESULTS == 5        \* n_results of basic_rag and query_expansion_rag
N_RESULTS_MULTI == 10 \* n_results of multiple_queries_rag
NUM_QUERIES == 5      \* "Ensure we have exactly 5 questions"
TOP_K == 5            \* [:5]

NO_INFO == <<"No relevant information found in TCS report.">>
ERROR_PREFIX == <<"Error calling OpenAI API:", " ">>
SEPARATOR == <<"\n", "\n">>

(***************************************************************************)
(* Strings.                                                                *)
(***************************************************************************)
Min(a, b) == IF a <= b THEN a ELSE b

Range(s) == {s[i] : i \in 1..Len(s)}

IsSpace(c) == c \in {" ", "\n", "\t"}

RECURSIVE LStrip(_)
LStrip(s) ==
    IF s = <<>> THEN s
    ELSE IF IsSpace(Head(s)) THEN LStrip(Tail(s)) ELSE s

RECURSIVE RStrip(_)
RStrip(s) ==
    IF s = <<>> THEN s
    ELSE IF IsSpace(s[Len(s)]) THEN RStrip(SubSeq(s, 1, Len(s) - 1)) ELSE s

\* str.strip()
Strip(s) == RStrip(LStrip(s))

RECURSIVE SplitAcc(_, _, _, _)
SplitAcc(s, sep, cur, acc) ==
    IF s = <<>> THEN Append(acc, cur)
    ELSE IF Head(s) = sep
         THEN SplitAcc(Tail(s), sep, <<>>, Append(acc, cur))
         ELSE SplitAcc(Tail(s), sep, Append(cur, Head(s)), acc)

\* str.split(sep) for a one-character separator
Split(s, sep) == SplitAcc(s, sep, <<>>, <<>>)

RECURSIVE Join(_, _)
\* sep.join(parts)
Join(parts, sep) ==
    IF parts = <<>> THEN <<>>
    ELSE IF Len(parts) = 1 THEN parts[1]
    ELSE parts[1] \o sep \o Join(Tail(parts), sep)

\* whether text t occurs verbatim inside text s
Contains(s, t) ==
    \E i \in 0..(Len(s) - Len(t)) : SubSeq(s, i + 1, i + Len(t)) = t

(***************************************************************************)
(* Outcomes of a call to a collaborator.                                   *)
(***************************************************************************)
Return(v) == [kind |-> "return", value |-> v]
Raise(e) == [kind |-> "raise", value |-> e]

Raised(out) == out.kind = "raise"
NoCall == [kind |-> "none", value |-> <<>>]

\* a response object with the attribute output_text
Response(t) == [output_text |-> t]
\* a response object without it: str(response) is its text
Opaque(t) == [repr |-> t]

\* the dict chroma_collection.query returns for one query text
QueryResult(docs) == [documents |-> <<docs>>]

(***************************************************************************)
(* The pure steps of the functions.                                        *)
(***************************************************************************)
\* response.output_text if hasattr(response, 'output_text') else str(response)
ResponseText(response) ==
    IF "output_text" \in DOMAIN response THEN response.output_text
    ELSE response.repr

\* a test for an empty retrieval that never finds it empty
NoDocumentsNever(res) == FALSE

\* not results['documents'][0]
NoDocuments(res) == res.documents[1] = <<>>

\* the f-string of the final generation call
SynthesisPrompt(q, ctx) ==
    <<"Based on the following excerpts from the TCS Annual Report, please answer this question:", " ">>
    \o q
    \o <<"\n", "\n", "Context from TCS Annual Report:", "\n">>
    \o ctx
    \o <<"\n", "\n", "Please provide a clear, accurate answer based only on the information provided above.">>

\* the f-string of the hypothetical-answer generation call
HypotheticalPrompt(q) ==
    <<"You are a helpful expert financial research assistant.", "\n", "\n",
      "Question:", " ">> \o q
    \o <<"\n", "\n", "Generate a realistic, detailed answer that would typically appear in an annual report:">>

\* the f-string of the related-questions generation call
QueriesPrompt(q) ==
    <<"You are a helpful expert financial research assistant.", "\n", "\n",
      "Original question:", " ">> \o q
    \o <<"\n", "\n", "Generate 5 related questions:">>

\* round(time.time() - start_time, 2), the clock ticking in 1/100 s
Runtime(t, start) == t - start

\* an except clause that keeps the error text as the hypothetical answer
HypotheticalBlockKeepsError(out) ==
    IF Raised(out) THEN out.value ELSE Strip(ResponseText(out.value))

\* the try block of the hypothetical-answer generation and its except clause
HypotheticalBlock(out) ==
    IF Raised(out) THEN <<>> ELSE Strip(ResponseText(out.value))

\* Step 2 of query_expansion_rag
ExpandedQuery(q, hyp) ==
    IF hyp # <<>> THEN q \o <<" ">> \o hyp ELSE q

\* a context that also takes in the hypothetical answer
GroundingChunksWithHypothetical(res, hyp) == res.documents[1] \o <<hyp>>

\* the chunks query_expansion_rag joins into the context of the final prompt
GroundingChunks(res, hyp) == res.documents[1]

\* [q.strip() for q in content.split("\n") if q.strip()]
ParseQueries(content) ==
    LET lines == Split(content, "\n")
        stripped == [i \in 1..Len(lines) |-> Strip(lines[i])]
        NonEmpty(q) == q # <<>>
    IN  SelectSeq(stripped, NonEmpty)

RECURSIVE PadQueriesWithQuestion(_, _)
\* a padding that always repeats the original question
PadQueriesWithQuestion(gq, q) ==
    IF Len(gq) < NUM_QUERIES
    THEN PadQueriesWithQuestion(Append(gq, q), q)
    ELSE gq

RECURSIVE PadQueries(_, _)
\* while len(generated_queries) < 5: generated_queries.append(...)
PadQueries(gq, q) ==
    IF Len(gq) < NUM_QUERIES
    THEN PadQueries(Append(gq, IF gq # <<>> THEN gq[1] ELSE q), q)
    ELSE gq

\* a normalisation that truncates and never pads
NormalizeQueriesTruncateOnly(gq, q) ==
    IF Len(gq) > NUM_QUERIES THEN SubSeq(gq, 1, NUM_QUERIES) ELSE gq

\* "Ensure we have exactly 5 questions"
NormalizeQueries(gq, q) ==
    IF Len(gq) > NUM_QUERIES THEN SubSeq(gq, 1, NUM_QUERIES)
    ELSE IF Len(gq) < NUM_QUERIES THEN PadQueries(gq, q)
    ELSE gq

\* the try block of the related-questions generation and its except clause
QueriesBlock(out, q) ==
    IF Raised(out) THEN <<>>
    ELSE NormalizeQueries(ParseQueries(ResponseText(out.value)), q)

\* an except clause that drops what was collected so far
ExtendChunksReset(chunks, out) ==
    IF Raised(out) THEN <<>>
    ELSE IF out.value.documents[1] # <<>> THEN chunks \o out.value.documents[1]
    ELSE chunks

\* the body of the for loop over all_queries: its try block and except clause
ExtendChunks(chunks, out) ==
    IF Raised(out) THEN chunks
    ELSE IF ~NoDocuments(out.value) THEN chunks \o out.value.documents[1]
    ELSE chunks

RECURSIVE DedupLoop(_, _, _)
DedupLoop(chunks, unique, seen) ==
    IF chunks = <<>> THEN unique
    ELSE IF Head(chunks) \notin seen
         THEN DedupLoop(Tail(chunks), Append(unique, Head(chunks)),
                        seen \cup {Head(chunks)})
         ELSE DedupLoop(Tail(chunks), unique, seen)

RECURSIVE DedupAdjacent(_)
\* a deduplication that only drops a chunk equal to the one before it
DedupAdjacent(chunks) ==
    IF Len(chunks) <= 1 THEN chunks
    ELSE IF chunks[Len(chunks)] = chunks[Len(chunks) - 1]
         THEN DedupAdjacent(SubSeq(chunks, 1, Len(chunks) - 1))
         ELSE Append(DedupAdjacent(SubSeq(chunks, 1, Len(chunks) - 1)),
                     chunks[Len(chunks)])

\* Step 4 of multiple_queries_rag
Dedup(chunks) == DedupLoop(chunks, <<>>, {})

\* pairs = [[question, chunk] for chunk in unique_chunks]
Pairs(q, chunks) == [i \in 1..Len(chunks) |-> <<q, chunks[i]>>]

RECURSIVE SortedOrders(_, _)
SortedOrders(s, S) ==
    IF S = {} THEN {<<>>}
    ELSE LET least == {i \in S : \A j \in S : s[i] <= s[j]}
         IN  UNION {{<<i>> \o t : t \in SortedOrders(s, S \ {i})} : i \in least}

\* np.argsort(scores): the default sort is not stable, so every order of the
\* indices that sorts the scores ascending is a possible result
Argsort(s) == SortedOrders(s, 1..Len(s))

\* a reversal that is left out
ReverseOmitted(s) == s

\* [::-1]
Reverse(s) == [i \in 1..Len(s) |-> s[Len(s) + 1 - i]]

\* a cut that keeps the last five of the descending order
TopIndicesFromEnd(order) ==
    SubSeq(Reverse(order), Len(order) + 1 - Min(TOP_K, Len(order)), Len(order))

\* np.argsort(scores)[::-1][:5], given the result of np.argsort
TopIndices(order) == SubSeq(Reverse(order), 1, Min(TOP_K, Len(order)))

\* top_chunks = [unique_chunks[i] for i in top_indices]
TopChunks(chunks, indices) == [k \in 1..Len(indices) |-> chunks[indices[k]]]

\* the dict every return statement builds
Result(answer, runtime) == [answer |-> answer, runtime |-> runtime]

\* a final generation without the except clause
SynthesisBlockUncaught(out, runtime) ==
    IF Raised(out) THEN out
    ELSE Return(Result(Strip(ResponseText(out.value)), runtime))

\* the try block of the final generation and its except clause: how it ends
SynthesisBlock(out, runtime) ==
    IF Raised(out)
    THEN Return(Result(ERROR_PREFIX \o out.value, runtime))
    ELSE Return(Result(Strip(ResponseText(out.value)), runtime))

\* chroma_collection.query(query_texts=[...], n_results=n)
Query(n) ==
    {out \in chroma_collection :
        Raised(out) \/ Len(out.value.documents[1]) <= n}

\* cross_encoder.predict(pairs)
Predict(pairs) ==
    {Return(v) : v \in [1..Len(pairs) -> cross_encoder.values]}
    \cup {Raise(<<"predict failed">>) : f \in cross_encoder.faults \cap {"raise"}}
    \cup {Return(<<>>) : f \in cross_encoder.faults \cap {"empty"}}

(***************************************************************************)
(* The arguments the functions are run on.                                 *)
(***************************************************************************)
Strategies == {"basic_rag", "query_expansion_rag", "multiple_queries_rag"}

ChunkNames == <<"A", "B", "C", "D", "E", "F", "G", "H", "I">>
Chunk(i) == <<ChunkNames[i]>>

LineNames == <<"g1", "g2", "g3", "g4", "g5", "g6", "g7", "g8", "g9">>

Questions == {<<"What", " ", "was", " ", "revenue?">>, <<>>}

\* a client that fails, answers with surrounding whitespace (the text of
\* chunk A), answers nothing, or answers two lines in an object that has no
\* output_text
ClientOutcomes ==
    {Raise(<<"quota">>),
     Return(Response(<<" ", "A", "\n">>)),
     Return(Response(<<>>)),
     Return(Opaque(<<"h", "\n", "g">>))}

\* an index that fails, finds nothing, or finds one or two chunks
ChromaOutcomes ==
    {Raise(<<"backend">>),
     Return(QueryResult(<<>>)),
     Return(QueryResult(<<Chunk(1)>>)),
     Return(QueryResult(<<Chunk(2), Chunk(1)>>))}

\* a scorer that scores, fails, or returns no score at all
EncoderBehaviour == [values |-> 0..MaxScore, faults |-> {"raise", "empty"}]

Entry(f) ==
    CASE f = "basic_rag" -> "basic_query"
      [] f = "query_expansion_rag" -> "qe_hypothetical"
      [] f = "multiple_queries_rag" -> "mq_queries"

NoResult == [pending |-> TRUE]
NoException == [raised_by |-> "none", value |-> <<>>]
NoArgs == [query_texts |-> <<>>, n_results |-> 0]

\* the state on entry, before the first statement after start_time
Entered ==
    /\ pc = Entry(fn)
    /\ now = 0
    /\ start_time = 0
    /\ hypothetical_answer = <<>>
    /\ expanded_query = <<>>
    /\ generated_queries = <<>>
    /\ all_queries = <<>>
    /\ qi = 0
    /\ all_chunks = <<>>
    /\ unique_chunks = <<>>
    /\ scores = <<>>
    /\ top_indices = <<>>
    /\ top_chunks = <<>>
    /\ results = QueryResult(<<>>)
    /\ context = <<>>
    /\ ret = NoResult
    /\ exc = NoException
    /\ aux_out = NoCall
    /\ synth_out = NoCall
    /\ query_out = NoCall
    /\ query_args = NoArgs
    /\ create_input = <<>>
    /\ predict_pairs = <<>>
    /\ query_calls = 0
    /\ aux_calls = 0
    /\ synth_calls = 0
    /\ predict_calls = 0

Init ==
    /\ fn \in Strategies
    /\ question \in Questions
    /\ chroma_collection = ChromaOutcomes
    /\ client = ClientOutcomes
    /\ cross_encoder = EncoderBehaviour
    /\ Entered

(***************************************************************************)
(* The steps.  Each runs from one call of a collaborator to the next.      *)
(***************************************************************************)
arguments == <<fn, question, chroma_collection, client, cross_encoder, start_time>>
qe_locals == <<hypothetical_answer, expanded_query>>
mq_queries_locals == <<generated_queries, all_queries>>
mq_rank_locals == <<scores, top_indices, top_chunks>>
aux_ghost == <<aux_out, aux_calls>>
synth_ghost == <<synth_out, synth_calls, create_input>>
query_ghost == <<query_out, query_args, query_calls>>
predict_ghost == <<predict_pairs, predict_calls>>

\* the call chroma_collection.query(query_texts=[text], n_results=n) ending as out
QueryCall(text, n, out) ==
    /\ out \in Query(n)
    /\ query_args' = [query_texts |-> <<text>>, n_results |-> n]
    /\ query_out' = out
    /\ query_calls' = query_calls + 1
    /\ now' = now + 1

\* the final client.responses.create call ending as out
SynthesisCall(out) ==
    /\ out \in client
    /\ create_input' = SynthesisPrompt(question, context)
    /\ synth_out' = out
    /\ synth_calls' = synth_calls + 1
    /\ now' = now + 1

\* an exception leaves the function
Propagate(source, out) ==
    /\ pc' = "raised"
    /\ exc' = [raised_by |-> source, value |-> out.value]
    /\ UNCHANGED ret

\* basic_rag: the retrieval and the empty-retrieval return
basic_query ==
    /\ pc = "basic_query"
    /\ \E out \in chroma_collection :
        /\ QueryCall(question, N_RESULTS, out)
        /\ IF Raised(out)
           THEN Propagate("query", out) /\ UNCHANGED <<results, context>>
           ELSE /\ results' = out.value
                /\ exc' = exc
                /\ IF NoDocuments(out.value)
                   THEN /\ ret' = Result(NO_INFO, Runtime(now', start_time))
                        /\ pc' = "returned"
                        /\ context' = context
                   ELSE /\ context' = Join(out.value.documents[1], SEPARATOR)
                        /\ pc' = "basic_create"
                        /\ ret' = ret
    /\ UNCHANGED <<arguments, qe_locals, mq_queries_locals, qi, all_chunks,
                   unique_chunks, mq_rank_locals, aux_ghost, synth_ghost,
                   predict_ghost>>

\* basic_rag: the final generation
basic_create ==
    /\ pc = "basic_create"
    /\ \E out \in client :
        /\ SynthesisCall(out)
        /\ LET end == SynthesisBlock(out, Runtime(now', start_time))
           IN  IF Raised(end)
               THEN Propagate("create", end)
               ELSE /\ ret' = end.value
                    /\ pc' = "returned"
                    /\ exc' = exc
    /\ UNCHANGED <<arguments, locals, aux_ghost, query_ghost, predict_ghost>>

\* query_expansion_rag: Steps 1 and 2
qe_hypothetical ==
    /\ pc = "qe_hypothetical"
    /\ \E out \in client :
        /\ create_input' = HypotheticalPrompt(question)
        /\ aux_out' = out
        /\ aux_calls' = aux_calls + 1
        /\ now' = now + 1
        /\ hypothetical_answer' = HypotheticalBlock(out)
        /\ expanded_query' = ExpandedQuery(question, hypothetical_answer')
    /\ pc' = "qe_query"
    /\ UNCHANGED <<arguments, mq_queries_locals, qi, all_chunks, unique_chunks,
                   mq_rank_locals, results, context, ret, exc, synth_out,
                   synth_calls, query_ghost, predict_ghost>>

\* query_expansion_rag: Step 3 and the empty-retrieval return
qe_query ==
    /\ pc = "qe_query"
    /\ \E out \in chroma_collection :
        /\ QueryCall(expanded_query, N_RESULTS, out)
        /\ IF Raised(out)
           THEN Propagate("query", out) /\ UNCHANGED <<results, context>>
           ELSE /\ results' = out.value
                /\ exc' = exc
                /\ IF NoDocuments(out.value)
                   THEN /\ ret' = [answer |-> NO_INFO,
                                   runtime |-> Runtime(now', start_time),
                                   hypothetical_answer |-> hypothetical_answer]
                        /\ pc' = "returned"
                        /\ context' = context
                   ELSE /\ context' = Join(GroundingChunks(out.value, hypothetical_answer),
                                           SEPARATOR)
                        /\ pc' = "qe_create"
                        /\ ret' = ret
    /\ UNCHANGED <<arguments, qe_locals, mq_queries_locals, qi, all_chunks,
                   unique_chunks, mq_rank_locals, aux_ghost, synth_ghost,
                   predict_ghost>>

\* query_expansion_rag: Step 4
qe_create ==
    /\ pc = "qe_create"
    /\ \E out \in client :
        /\ SynthesisCall(out)
        /\ LET end == SynthesisBlock(out, Runtime(now', start_time))
           IN  IF Raised(end)
               THEN Propagate("create", end)
               ELSE /\ ret' = [answer |-> end.value.answer,
                               runtime |-> end.value.runtime,
                               hypothetical_answer |-> hypothetical_answer]
                    /\ pc' = "returned"
                    /\ exc' = exc
    /\ UNCHANGED <<arguments, locals, aux_ghost, query_ghost, predict_ghost>>

\* multiple_queries_rag: Steps 1 and 2
mq_queries ==
    /\ pc = "mq_queries"
    /\ \E out \in client :
        /\ create_input' = QueriesPrompt(question)
        /\ aux_out' = out
        /\ aux_calls' = aux_calls + 1
        /\ now' = now + 1
        /\ generated_queries' = QueriesBlock(out, question)
        /\ all_queries' = <<question>> \o generated_queries'
    /\ all_chunks' = <<>>
    /\ qi' = 1
    /\ pc' = "mq_query"
    /\ UNCHANGED <<arguments, qe_locals, unique_chunks, mq_rank_locals, results,
                   context, ret, exc, synth_out, synth_calls, query_ghost,
                   predict_ghost>>

\* multiple_queries_rag: one turn of the for loop of Step 3; after the last
\* turn, Step 4 and the empty-pool return
mq_query ==
    /\ pc = "mq_query"
    /\ \E out \in chroma_collection :
        /\ QueryCall(all_queries[qi], N_RESULTS_MULTI, out)
        /\ all_chunks' = ExtendChunks(all_chunks, out)
        /\ results' = IF Raised(out) THEN results ELSE out.value
    /\ qi' = qi + 1
    /\ IF qi < Len(all_queries)
       THEN /\ pc' = "mq_query"
            /\ UNCHANGED <<unique_chunks, ret>>
       ELSE /\ unique_chunks' = Dedup(all_chunks')
            /\ IF unique_chunks' = <<>>
               THEN /\ ret' = [answer |-> NO_INFO,
                               runtime |-> Runtime(now', start_time),
                               generated_queries |-> generated_queries]
                    /\ pc' = "returned"
               ELSE /\ pc' = "mq_predict"
                    /\ ret' = ret
    /\ UNCHANGED <<arguments, qe_locals, mq_queries_locals, mq_rank_locals,
                   context, exc, aux_ghost, synth_ghost, predict_ghost>>

\* multiple_queries_rag: Steps 5 and 6, and the context of Step 7
mq_predict ==
    /\ pc = "mq_predict"
    /\ predict_pairs' = Pairs(question, unique_chunks)
    /\ predict_calls' = predict_calls + 1
    /\ now' = now + 1
    /\ \E out \in Predict(predict_pairs') :
        IF Raised(out)
        THEN /\ Propagate("predict", out)
             /\ UNCHANGED <<mq_rank_locals, context>>
        ELSE /\ scores' = out.value
             /\ \E order \in Argsort(scores') :
                    top_indices' = TopIndices(order)
             /\ top_chunks' = TopChunks(unique_chunks, top_indices')
             /\ context' = Join(top_chunks', SEPARATOR)
             /\ pc' = "mq_create"
             /\ UNCHANGED <<ret, exc>>
    /\ UNCHANGED <<arguments, qe_locals, mq_queries_locals, qi, all_chunks,
                   unique_chunks, results, aux_ghost, synth_ghost, query_ghost>>

\* multiple_queries_rag: the final generation of Step 7
mq_create ==
    /\ pc = "mq_create"
    /\ \E out \in client :
        /\ SynthesisCall(out)
        /\ LET end == SynthesisBlock(out, Runtime(now', start_time))
           IN  IF Raised(end)
               THEN Propagate("create", end)
               ELSE /\ ret' = [answer |-> end.value.answer,
                               runtime |-> end.value.runtime,
                               generated_queries |-> generated_queries]
                    /\ pc' = "returned"
                    /\ exc' = exc
    /\ UNCHANGED <<arguments, locals, aux_ghost, query_ghost, predict_ghost>>

(***************************************************************************)
(* multiple_queries_rag alone, on every shape of the related-questions     *)
(* output.                                                                 *)
(***************************************************************************)
Styles == {"plain", "spaced", "phrases"}

Styled(line, style) ==
    CASE style = "plain" -> line
      [] style = "spaced" -> <<" ">> \o line \o <<"\t">>
      [] style = "phrases" -> line \o <<" ", "more?">>

\* a generation output of n questions: one per line; or indented, with
\* blank lines between and a newline at the end; or of several words
Content(n, style) ==
    Join([i \in 1..n |-> Styled(<<LineNames[i]>>, style)],
         IF style = "spaced" THEN <<"\n", " ", "\n">> ELSE <<"\n">>)
    \o (IF style = "spaced" THEN <<"\n">> ELSE <<>>)

QueriesClientOutcomes ==
    {Raise(<<"quota">>)}
    \cup {Return(Response(Content(n, st))) : n \in 0..MaxLines, st \in Styles}

QueriesChromaOutcomes ==
    {Raise(<<"backend">>),
     Return(QueryResult(<<>>)),
     Return(QueryResult(<<Chunk(1)>>))}

InitQueries ==
    /\ fn = "multiple_queries_rag"
    /\ question \in Questions
    /\ chroma_collection = QueriesChromaOutcomes
    /\ client = QueriesClientOutcomes
    /\ cross_encoder = EncoderBehaviour
    /\ Entered

NextMulti ==
    \/ mq_queries
    \/ mq_query
    \/ mq_predict
    \/ mq_create

SpecQueries == InitQueries /\ [][NextMulti]_vars

(***************************************************************************)
(* multiple_queries_rag alone, with a client that is down, on every pool   *)
(* and every score vector.                                                 *)
(***************************************************************************)
\* results that repeat chunks
DupPools ==
    UNION {[1..k -> {Chunk(i) : i \in 1..NumDupChunks}] : k \in 0..MaxDupLen}

\* results of distinct chunks
DistinctPools == {[i \in 1..k |-> Chunk(i)] : k \in 1..MaxPool}

RankChromaOutcomes ==
    {Raise(<<"backend">>)}
    \cup {Return(QueryResult(p)) : p \in DupPools \cup DistinctPools}

InitRank ==
    /\ fn = "multiple_queries_rag"
    /\ question = <<"What", " ", "was", " ", "revenue?">>
    /\ chroma_collection = RankChromaOutcomes
    /\ client = {Raise(<<"quota">>)}
    /\ cross_encoder = EncoderBehaviour
    /\ Entered

SpecRank == InitRank /\ [][NextMulti]_vars

Next ==
    \/ basic_query
    \/ basic_create
    \/ qe_hypothetical
    \/ qe_query
    \/ qe_create
    \/ mq_queries
    \/ mq_query
    \/ mq_predict
    \/ mq_create

\* the three functions, run on every question and collaborator behaviour
Spec == Init /\ [][Next]_vars

(***************************************************************************)
(* Properties of the three functions under Spec.                           *)
(***************************************************************************)
Done == pc \in {"returned", "raised"}

\* C1, as stated: whatever the collaborators do, no function ever raises
\* to its caller.
C1_NeverRaises == pc # "raised"

\* C1, amended: a function ends by returning a dict with answer and runtime
\* unless the one retrieval of basic_rag or query_expansion_rag raises, or
\* the scorer of multiple_queries_rag raises; only those exceptions reach
\* the caller.  No step is stuck before the end and the end comes within
\* NUM_QUERIES + 4 collaborator calls.
C1_TotalUpToRetrievalAndScorer ==
    /\ pc = "raised" =>
          \/ /\ fn \in {"basic_rag", "query_expansion_rag"}
             /\ exc.raised_by = "query"
             /\ Raised(query_out)
             /\ exc.value = query_out.value
          \/ /\ fn = "multiple_queries_rag"
             /\ exc.raised_by = "predict"
    /\ pc = "returned" => {"answer", "runtime"} \subseteq DOMAIN ret
    /\ ~Done => ENABLED Next
    /\ query_calls + aux_calls + synth_calls + predict_calls <= NUM_QUERIES + 4

\* C1: a run in which both generation calls raise and the function returns
C1_Witness ==
    /\ pc = "returned"
    /\ Raised(aux_out)
    /\ Raised(synth_out)
    /\ "runtime" \in DOMAIN ret

\* C2: when retrieval yields no chunks (in multiple_queries_rag: the pool
\* over all sub-queries is empty) the function returns the fixed answer, no
\* final generation and no scoring was issued, and the auxiliary field is
\* in the result.
C2_EmptyRetrievalShortCircuit ==
    LET empty ==
            IF fn = "multiple_queries_rag"
            THEN qi > Len(all_queries) /\ qi > 0 /\ Range(all_chunks) = {}
            ELSE /\ query_calls = 1
                 /\ query_out.kind = "return"
                 /\ query_out.value.documents[1] = <<>>
    IN  empty =>
          /\ pc = "returned"
          /\ ret.answer = NO_INFO
          /\ "runtime" \in DOMAIN ret
          /\ synth_calls = 0
          /\ predict_calls = 0
          /\ fn = "query_expansion_rag" =>
                /\ "hypothetical_answer" \in DOMAIN ret
                /\ ret.hypothetical_answer = hypothetical_answer
          /\ fn = "multiple_queries_rag" =>
                /\ "generated_queries" \in DOMAIN ret
                /\ ret.generated_queries = generated_queries

\* C2: multiple_queries_rag returned on an empty pool after padded queries
C2_Witness ==
    /\ fn = "multiple_queries_rag"
    /\ pc = "returned"
    /\ all_chunks = <<>>
    /\ query_calls = NUM_QUERIES + 1
    /\ Len(ret.generated_queries) = NUM_QUERIES

\* C8: in query_expansion_rag the retrieval query is the question, a space
\* and the hypothetical answer (the bare question when that is empty); the
\* final prompt is made of the question and the retrieved chunks alone, so
\* the hypothetical answer is not in its context unless it is a retrieved
\* chunk.
C8_GroundingIsolation ==
    fn = "query_expansion_rag" =>
      /\ query_calls >= 1 =>
            /\ query_calls = 1
            /\ query_args.query_texts =
                 << IF hypothetical_answer = <<>> THEN question
                    ELSE question \o <<" ">> \o hypothetical_answer >>
      /\ synth_calls >= 1 =>
            LET docs == query_out.value.documents[1]
            IN  /\ context = Join(docs, SEPARATOR)
                /\ create_input = SynthesisPrompt(question, Join(docs, SEPARATOR))
                /\ (hypothetical_answer # <<>> /\ hypothetical_answer \notin Range(docs))
                      => ~Contains(context, hypothetical_answer)

\* C8: a final prompt was sent while the hypothetical answer is no chunk
C8_Witness ==
    /\ fn = "query_expansion_rag"
    /\ synth_calls = 1
    /\ hypothetical_answer # <<>>
    /\ hypothetical_answer \notin Range(query_out.value.documents[1])
    /\ Contains(create_input, question)

\* C9: a generation failure never leaves a function.  When the auxiliary
\* generation raises, the run goes on to retrieval with the fallback (empty
\* hypothetical answer and the bare question as query; no generated
\* queries).  When the final generation raises, the answer is the error
\* prefix and the error text, and runtime and the auxiliary field computed
\* before are in the result.
C9_GenerationFaultsAreData ==
    /\ pc = "raised" => exc.raised_by \in {"query", "predict"}
    /\ Raised(aux_out) =>
          /\ pc \in {"qe_query", "mq_query"} \/ query_calls >= 1
          /\ fn = "query_expansion_rag" =>
                /\ hypothetical_answer = <<>>
                /\ query_calls >= 1 => query_args.query_texts = <<question>>
          /\ fn = "multiple_queries_rag" =>
                /\ generated_queries = <<>>
                /\ all_queries = <<question>>
    /\ Raised(synth_out) =>
          /\ pc = "returned"
          /\ ret.answer = ERROR_PREFIX \o synth_out.value
          /\ "runtime" \in DOMAIN ret
          /\ fn = "query_expansion_rag" =>
                ret.hypothetical_answer =
                    IF Raised(aux_out) THEN <<>>
                    ELSE Strip(ResponseText(aux_out.value))
          /\ fn = "multiple_queries_rag" =>
                /\ ret.generated_queries = generated_queries
                /\ Raised(aux_out) <=> ret.generated_queries = <<>>

\* C9: query_expansion_rag returned after both generation calls raised
C9_Witness ==
    /\ fn = "query_expansion_rag"
    /\ pc = "returned"
    /\ Raised(aux_out)
    /\ Raised(synth_out)
    /\ ret.hypothetical_answer = <<>>

\* C10: in multiple_queries_rag the k-th retrieval is for the k-th query
\* of the query set, the original question first; whether it returns or
\* raises, the pool grows by exactly the chunks it returned (none when it
\* raised), nothing collected is lost, the run does not abort, and the loop
\* ends exactly when every query was issued once.
C10_FanOutToleratesFailures ==
    [][(fn = "multiple_queries_rag" /\ query_calls' # query_calls) =>
          /\ query_calls' = query_calls + 1
          /\ query_calls' <= Len(all_queries)
          /\ all_queries = <<question>> \o generated_queries
          /\ query_args'.query_texts = <<all_queries[query_calls']>>
          /\ all_chunks' =
               all_chunks \o (IF query_out'.kind = "return"
                              THEN query_out'.value.documents[1] ELSE <<>>)
          /\ pc' # "raised"
          /\ (pc' = "mq_query") <=> (query_calls' < Len(all_queries))
      ]_vars

\* C10: the last of six sub-queries raised, the chunks of earlier ones are
\* kept and the run goes on to scoring
C10_Witness ==
    /\ fn = "multiple_queries_rag"
    /\ pc = "mq_predict"
    /\ query_calls = NUM_QUERIES + 1
    /\ Raised(query_out)
    /\ all_chunks # <<>>

(***************************************************************************)
(* Properties of the query set of multiple_queries_rag, under SpecQueries. *)
(***************************************************************************)
\* the non-empty trimmed lines of the related-questions output
GeneratedLines == ParseQueries(ResponseText(aux_out.value))

QueriesGenerated == fn = "multiple_queries_rag" /\ aux_calls = 1

\* C3, as stated: an output of n >= 1 parsed lines gives min(n, 5)
\* generated queries, and 1 + len(generated_queries) queries are fanned out.
C3_LengthIsMinOfLinesAndFive ==
    (QueriesGenerated /\ aux_out.kind = "return") =>
       /\ Len(GeneratedLines) >= 1 =>
             Len(generated_queries) = Min(Len(GeneratedLines), 5)
       /\ Len(all_queries) = 1 + Len(generated_queries)

\* C3, amended: generated_queries has length 5 whenever the generation
\* call returns, whatever the number n >= 0 of parsed lines, and length 0
\* exactly when the call raises; the number of queries fanned out to
\* retrieval is 1 + len(generated_queries).
C3_QuerySetLengths ==
    QueriesGenerated =>
       /\ aux_out.kind = "return" => Len(generated_queries) = 5
       /\ Raised(aux_out) => Len(generated_queries) = 0
       /\ Len(all_queries) = 1 + Len(generated_queries)
       /\ query_calls <= 1 + Len(generated_queries)
       /\ pc # "mq_query" => query_calls = 1 + Len(generated_queries)

\* C3: two lines were generated and six queries were fanned out
C3_Witness ==
    /\ QueriesGenerated
    /\ aux_out.kind = "return"
    /\ Len(GeneratedLines) = 2
    /\ pc # "mq_query"
    /\ query_calls = 6

\* C4: when the generation returns n parsed lines, generated_queries is
\* the first 5 of them if n > 5, else the n lines followed by copies of the
\* first line (of the question when n = 0) up to 5 entries, and the query
\* set is the question followed by them, 6 entries; when the generation
\* raises, generated_queries is empty and the query set is the question
\* alone.  The query set has 1 or 6 entries.
C4_PaddingTruncation ==
    QueriesGenerated =>
       /\ aux_out.kind = "return" =>
             LET lines == GeneratedLines
                 n == Len(lines)
             IN  /\ generated_queries =
                      [i \in 1..5 |-> IF i <= n THEN lines[i]
                                      ELSE IF n > 0 THEN lines[1]
                                      ELSE question]
                 /\ Len(all_queries) = 6
       /\ Raised(aux_out) =>
             /\ generated_queries = <<>>
             /\ all_queries = <<question>>
       /\ all_queries = <<question>> \o generated_queries
       /\ Len(all_queries) \in {1, 6}

\* C4: more than five lines were generated and the sixth was dropped
C4_Witness ==
    /\ QueriesGenerated
    /\ aux_out.kind = "return"
    /\ Len(GeneratedLines) > 5
    /\ GeneratedLines[6] \notin Range(all_queries)
    /\ all_queries[6] = GeneratedLines[5]

(***************************************************************************)
(* Properties of the pool of multiple_queries_rag, under SpecRank.         *)
(***************************************************************************)
LoopEnded == fn = "multiple_queries_rag" /\ qi > 0 /\ qi > Len(all_queries)

FirstIndex(s, x) == CHOOSE k \in 1..Len(s) : s[k] = x /\ \A m \in 1..(k - 1) : s[m] # x

\* C5: the deduplicated pool holds each distinct chunk of the raw pool once
\* and nothing else, in the order of the first occurrences in the raw pool.
C5_Deduplication ==
    LoopEnded =>
       /\ Range(unique_chunks) = Range(all_chunks)
       /\ \A i, j \in 1..Len(unique_chunks) :
             i < j =>
               /\ unique_chunks[i] # unique_chunks[j]
               /\ FirstIndex(all_chunks, unique_chunks[i])
                    < FirstIndex(all_chunks, unique_chunks[j])

\* C5: a raw pool whose first chunk comes back after another one
C5_Witness ==
    /\ LoopEnded
    /\ Len(all_chunks) = 3
    /\ all_chunks[1] = all_chunks[3]
    /\ all_chunks[1] # all_chunks[2]
    /\ unique_chunks = <<all_chunks[1], all_chunks[2]>>

\* the scorer returned one score for each chunk of the pool
Scored ==
    /\ fn = "multiple_queries_rag"
    /\ predict_calls = 1
    /\ pc # "raised"
    /\ unique_chunks # <<>>
    /\ Len(scores) = Len(unique_chunks)

Selected == Range(top_indices)

\* C6: the chunks passed to the final generation are min(5, pool size)
\* chunks of the pool, none twice, and the score of each is at least the
\* score of every chunk left out.
C6_TopKSelection ==
    Scored =>
       /\ Len(top_chunks) = Min(5, Len(unique_chunks))
       /\ \A k, l \in 1..Len(top_chunks) : k < l => top_chunks[k] # top_chunks[l]
       /\ Range(top_chunks) \subseteq Range(unique_chunks)
       /\ Selected \subseteq 1..Len(unique_chunks)
       /\ Range(top_chunks) = {unique_chunks[i] : i \in Selected}
       /\ \A i \in Selected : \A j \in (1..Len(unique_chunks)) \ Selected :
             scores[i] >= scores[j]
       /\ context = Join(top_chunks, SEPARATOR)
       /\ synth_calls = 1 =>
             create_input = SynthesisPrompt(question, Join(top_chunks, SEPARATOR))

\* C6: a pool of more than five chunks with unequal scores was cut
C6_Witness ==
    /\ Scored
    /\ synth_calls = 1
    /\ Len(unique_chunks) > 5
    /\ Len(top_chunks) = 5
    /\ \E i, j \in 1..Len(scores) : scores[i] # scores[j]

\* C7, as stated: the selection is in descending score order and of two
\* chunks with equal scores the one earlier in the pool is ranked first,
\* inside the selection and at the top-5 cut.
C7_StableTieBreak ==
    Scored =>
       /\ \A k \in 1..(Len(top_indices) - 1) :
             \/ scores[top_indices[k]] > scores[top_indices[k + 1]]
             \/ /\ scores[top_indices[k]] = scores[top_indices[k + 1]]
                /\ top_indices[k] < top_indices[k + 1]
       /\ \A i \in Selected : \A j \in (1..Len(unique_chunks)) \ Selected :
             scores[i] = scores[j] => i < j

\* C7, amended: the selected chunks are in the context in descending
\* (non-increasing) score order; among chunks of equal score no order is
\* kept, and a later chunk of the pool may be ranked before an earlier one
\* or take its place at the top-5 cut.
C7_DescendingOrder ==
    Scored =>
       /\ \A k \in 1..(Len(top_indices) - 1) :
             scores[top_indices[k]] >= scores[top_indices[k + 1]]
       /\ top_chunks = [k \in 1..Len(top_indices) |-> unique_chunks[top_indices[k]]]
       /\ context = Join(top_chunks, SEPARATOR)

\* C7: a selection in which two chunks tie and a third scores otherwise
C7_Witness ==
    /\ Scored
    /\ pc = "mq_create"
    /\ \E k \in 1..(Len(top_indices) - 1) :
          scores[top_indices[k]] = scores[top_indices[k + 1]]
    /\ \E k \in 1..(Len(top_indices) - 1) :
          scores[top_indices[k]] > scores[top_indices[k + 1]]

====
